---- MODULE Spec2Model ----
\* A model of the storage-engine primitives of the repository: the buffer
\* pool (buffer_pool_instance.rs) with its pages (page.rs), its LRU list
\* (lru.rs) and its disk manager (disk_manager.rs), the extendible hash
\* table (hash_table.rs) and the persistent AA tree (aa_tree/mod.rs).
EXTENDS Integers, Sequences, FiniteSets, TLC

\* ------------------------------------------------------------------ bounds
\* The number of frames of the pool (the size given to BufferPoolInstance::new).
PoolSize == 1
\* Page ids range over 0 .. MaxPageId, for fetch_page and for the id counter.
MaxPageId == 1
\* No frame is pinned more than MaxPin times.
MaxPin == 1
\* Page contents range over 0 .. MaxByte.
MaxByte == 1
\* The backing file holds at most MaxFilePages pages.
MaxFilePages == 1
\* Hash-table keys range over 0 .. MaxKey and values over 0 .. MaxValue.
MaxKey == 5
MaxValue == 1
\* At most MaxPuts tuples are put into the hash table.
MaxPuts == 5
\* The bucket_size_limit given to HashTable::new.
BucketSizeLimit == 1
\* AA-tree values range over 0 .. MaxNodeValue.
MaxNodeValue == 5
\* At most MaxInput values are given to the tree, new_leaf's included.
MaxInput == 6
\* Under direct calls of the disk manager the file holds at most
\* MaxDiskFilePages pages.
MaxDiskFilePages == 3
\* The ids given to a stand-alone LRU list range over 0 .. MaxLruId.
MaxLruId == 4

\* ------------------------------------------------------------------ types
\* Option<T>: None is the empty sequence, Some(x) the one-element sequence.
None == << >>
Some(x) == << x >>
IsSome(o) == o # None
Unwrap(o) == o[1]

PageIds == 0 .. MaxPageId
\* A page buffer is abstracted to one value; 0 is the all-zero buffer.
ZeroData == 0
PageDatas == 0 .. MaxByte

VARIABLES
    pages,          \* Vec<Page>: FrameId -> UnsafePage
    free_list,      \* VecDeque<FrameId>
    page_table,     \* HashMap<PageId, FrameId>, as a function on its key set
    lru,            \* UnsafeLRU: map, first, last
    next_page_id,   \* PageId
    disk_file,      \* the backing file: a sequence of page-sized slots
    append_ignores_offset, \* platform: does pwrite on an O_APPEND file append?
    committed,      \* history: PageId -> data at the last successful unpin(p, true)
    new_count,      \* history: number of successful new_page calls
    table,          \* HashTable, with the buckets its Rc pointers refer to
    puts,           \* history: the tuples put into the table, in call order
    tree,           \* the Node the caller holds: the root of the current tree
    input,          \* history: the values given to new_leaf and put, in call order
    written,        \* history: PageId -> the buffer of the last DiskManager::write
    last_read,      \* history: the last DiskManager::read: page id, buffer before, after
    lru_order,      \* history: the ids present in a stand-alone LRU list, oldest first
    unpin_order,    \* history: the unpinned resident frames, longest unpinned first
    threads,        \* the two threads sharing a pool: position, page handle, bytes
    locks,          \* the owners of the pool mutex, LRU mutex, frame locks, disk lock
    callers         \* the threads calling the pool: the locks each holds or waits for

pool_vars == << pages, free_list, page_table, lru, next_page_id, disk_file,
                append_ignores_offset, committed, new_count >>
hash_vars == << table, puts >>
tree_vars == << tree, input >>
disk_vars == << written, last_read >>
lock_vars == << locks, callers >>
vars == << pool_vars, hash_vars, tree_vars, disk_vars, lru_order, unpin_order,
           threads, lock_vars >>

\* The frames of the pool: the indices of the Vec<Page>.
FrameIds == DOMAIN pages

\* ------------------------------------------------------------------ page.rs
PageNew == [data |-> ZeroData, page_id |-> None, is_dirty |-> FALSE, pin_count |-> 0]

set_page_id(page, page_id) == [page EXCEPT !.page_id = Some(page_id)]

set_dirty(page, is_dirty) == [page EXCEPT !.is_dirty = is_dirty]

pin(page) == [page EXCEPT !.pin_count = @ + 1]

\* pin_count is a u32; a value of -1 stands for the underflow of 0 - 1.
unpin(page) == [page EXCEPT !.pin_count = @ - 1]

reset(page) == [page EXCEPT !.page_id = None, !.data = ZeroData, !.is_dirty = FALSE]

\* ------------------------------------------------------------------ lru.rs
LRUNew == [map |-> << >>, first |-> None, last |-> None]

MapRemove(m, k) == [x \in (DOMAIN m) \ {k} |-> m[x]]
MapInsert(m, k, v) == [x \in (DOMAIN m) \cup {k} |-> IF x = k THEN v ELSE m[x]]

lru_add(l, frame_id) ==
    IF frame_id \notin DOMAIN l.map
    THEN LET new_node == [previous |-> None, next |-> l.first]
             m1 == MapInsert(l.map, frame_id, new_node)
             m2 == IF IsSome(l.first)
                   THEN [m1 EXCEPT ![Unwrap(l.first)].previous = Some(frame_id)]
                   ELSE m1
         IN [map |-> m2,
             first |-> Some(frame_id),
             last |-> IF IsSome(l.first) THEN l.last ELSE Some(frame_id)]
    ELSE l

lru_remove(l, frame_id) ==
    IF frame_id \in DOMAIN l.map
    THEN LET removed_node == l.map[frame_id]
             m0 == MapRemove(l.map, frame_id)
             m1 == IF IsSome(removed_node.previous)
                   THEN [m0 EXCEPT ![Unwrap(removed_node.previous)].next = removed_node.next]
                   ELSE m0
             m2 == IF IsSome(removed_node.next)
                   THEN [m1 EXCEPT ![Unwrap(removed_node.next)].previous = removed_node.previous]
                   ELSE m1
         IN [map |-> m2,
             first |-> IF l.first = Some(frame_id) THEN removed_node.next ELSE l.first,
             last |-> IF l.last = Some(frame_id) THEN removed_node.previous ELSE l.last]
    ELSE l

\* remove_last that takes the id at the front, the one added last.
lru_remove_last_TakesFirst(l) ==
    IF IsSome(l.first)
    THEN [lru |-> lru_remove(l, Unwrap(l.first)), result |-> l.first]
    ELSE [lru |-> l, result |-> None]

\* Returns the list after the call and the Option<FrameId> it returned.
lru_remove_last(l) ==
    IF IsSome(l.last)
    THEN LET frame_id == Unwrap(l.last)
         IN IF frame_id \in DOMAIN l.map
            THEN LET removed_node == l.map[frame_id]
                     m0 == MapRemove(l.map, frame_id)
                     m1 == IF IsSome(removed_node.previous)
                           THEN [m0 EXCEPT ![Unwrap(removed_node.previous)].next = None]
                           ELSE m0
                 IN [lru |-> [map |-> m1,
                              first |-> IF l.first = Some(frame_id) THEN None ELSE l.first,
                              last |-> removed_node.previous],
                     result |-> Some(frame_id)]
            ELSE [lru |-> [l EXCEPT !.last = None], result |-> Some(frame_id)]
    ELSE [lru |-> l, result |-> None]

\* The frames of the list from first to last, following the next links.
RECURSIVE LruWalk(_, _, _)
LruWalk(l, cur, fuel) ==
    IF cur = None \/ fuel = 0 THEN << >>
    ELSE << Unwrap(cur) >> \o LruWalk(l, l.map[Unwrap(cur)].next, fuel - 1)

LruSeq(l) == LruWalk(l, l.first, Cardinality(DOMAIN l.map))
InLru(l, frame_id) == frame_id \in DOMAIN l.map

\* ------------------------------------------------------------------ disk_manager.rs
\* offset(page_id) = page_id * PAGE_SIZE; the file is indexed in page slots,
\* slot k (0-based) is element k + 1 of disk_file.
offset(page_id) == page_id

\* write_all_at on a file opened with append(true): the platform either
\* honours the offset (extending the file with a zero-filled hole when the
\* offset is past end-of-file) or appends at end-of-file whatever the offset.
disk_write(file, append, page_id, buf) ==
    IF append
    THEN Append(file, buf)
    ELSE LET off == offset(page_id)
             n == IF Len(file) > off + 1 THEN Len(file) ELSE off + 1
         IN [k \in 1 .. n |->
                IF k = off + 1 THEN buf
                ELSE IF k <= Len(file) THEN file[k] ELSE ZeroData]

\* disk_read that leaves the buffer as it was when nothing was read.
disk_read_NoZeroFill(file, page_id, buf) ==
    IF offset(page_id) + 1 <= Len(file) THEN file[offset(page_id) + 1] ELSE buf

\* read_at fills buf with the page at the offset, and reads 0 bytes past
\* end-of-file; the part of buf that was not read is then zero-filled.
disk_read(file, page_id, buf) ==
    LET read_count == IF offset(page_id) + 1 <= Len(file) THEN 1 ELSE 0
    IN IF read_count < 1 THEN ZeroData ELSE file[offset(page_id) + 1]

\* ------------------------------------------------------------------ buffer_pool_instance.rs
\* The UnsafeBufferPoolInstance together with the frames and the file it
\* shares, as one record; the helpers below map records to records.
Pool ==
    [pages |-> pages, free_list |-> free_list, page_table |-> page_table,
     lru |-> lru, next_page_id |-> next_page_id, disk_file |-> disk_file]

\* new_simple: ids start at 0 and the successor is page_id + 1.
inc_fn(page_id) == page_id + 1

find_page(s, page_id) ==
    IF page_id \in DOMAIN s.page_table THEN Some(s.page_table[page_id]) ELSE None

write_page(s, frame_id) ==
    IF s.pages[frame_id].is_dirty
    THEN LET page_id == Unwrap(s.pages[frame_id].page_id)
         IN [s EXCEPT !.disk_file =
                disk_write(@, append_ignores_offset, page_id, s.pages[frame_id].data)]
    ELSE s

flush_page(s, page_id) ==
    LET found == find_page(s, page_id)
    IN IF IsSome(found)
       THEN [s |-> write_page(s, Unwrap(found)), result |-> TRUE]
       ELSE [s |-> s, result |-> FALSE]

\* find_fresh_page with the eviction leaving the victim's page id in the page table.
find_fresh_page_KeepsOldEntry(s) ==
    IF s.free_list # << >>
    THEN LET frame_id == s.free_list[Len(s.free_list)]
         IN [s |-> [s EXCEPT !.free_list = SubSeq(@, 1, Len(@) - 1),
                             !.pages[frame_id] = pin(@)],
             result |-> Some(frame_id)]
    ELSE LET r == lru_remove_last(s.lru)
         IN IF IsSome(r.result)
            THEN LET frame_id == Unwrap(r.result)
                     s1 == write_page([s EXCEPT !.lru = r.lru], frame_id)
                 IN [s |-> [s1 EXCEPT !.pages[frame_id] = pin(reset(@))],
                     result |-> Some(frame_id)]
            ELSE [s |-> [s EXCEPT !.lru = r.lru], result |-> None]

\* result is the Option<FrameId> of the frame handed out.
find_fresh_page(s) ==
    IF s.free_list # << >>
    THEN LET frame_id == s.free_list[Len(s.free_list)]
         IN [s |-> [s EXCEPT !.free_list = SubSeq(@, 1, Len(@) - 1),
                             !.pages[frame_id] = pin(@)],
             result |-> Some(frame_id)]
    ELSE LET r == lru_remove_last(s.lru)
         IN IF IsSome(r.result)
            THEN LET frame_id == Unwrap(r.result)
                     s1 == write_page([s EXCEPT !.lru = r.lru], frame_id)
                     old == s1.pages[frame_id].page_id
                     s2 == IF IsSome(old)
                           THEN [s1 EXCEPT !.page_table = MapRemove(@, Unwrap(old))]
                           ELSE s1
                 IN [s |-> [s2 EXCEPT !.pages[frame_id] = pin(reset(@))],
                     result |-> Some(frame_id)]
            ELSE [s |-> [s EXCEPT !.lru = r.lru], result |-> None]

\* allocate_page that hands out the counter without advancing it.
allocate_page_NoAdvance(s) == [s |-> s, result |-> s.next_page_id]

allocate_page(s) ==
    [s |-> [s EXCEPT !.next_page_id = inc_fn(@)], result |-> s.next_page_id]

\* result is the page id of the returned page, None when no page is returned.
new_page(s) ==
    LET fresh == find_fresh_page(s)
    IN IF IsSome(fresh.result)
       THEN LET frame_id == Unwrap(fresh.result)
                alloc == allocate_page(fresh.s)
                page_id == alloc.result
            IN [s |-> [alloc.s EXCEPT
                          !.page_table = MapInsert(@, page_id, frame_id),
                          !.pages[frame_id] = set_page_id(@, page_id)],
                result |-> Some(page_id)]
       ELSE [s |-> fresh.s, result |-> None]

\* result is the frame of the returned page, None when no page is returned.
fetch_page(s, page_id) ==
    LET found == find_page(s, page_id)
    IN IF IsSome(found)
       THEN LET frame_id == Unwrap(found)
            IN [s |-> [s EXCEPT !.lru = lru_remove(@, frame_id),
                                !.pages[frame_id] = pin(@)],
                result |-> Some(frame_id)]
       ELSE LET fresh == find_fresh_page(s)
            IN IF IsSome(fresh.result)
               THEN LET frame_id == Unwrap(fresh.result)
                    IN [s |-> [fresh.s EXCEPT
                                  !.lru = lru_remove(@, frame_id),
                                  !.page_table = MapInsert(@, page_id, frame_id),
                                  !.pages[frame_id] =
                                      [set_page_id(@, page_id) EXCEPT
                                          !.data = disk_read(fresh.s.disk_file, page_id, @)]],
                        result |-> Some(frame_id)]
               ELSE [s |-> fresh.s, result |-> None]

\* unpin_page without the filter on a pin count of zero.
unpin_page_NoPinFilter(s, page_id, is_dirty) ==
    LET found == find_page(s, page_id)
    IN IF IsSome(found)
       THEN LET frame_id == Unwrap(found)
                s1 == [s EXCEPT !.pages[frame_id] = set_dirty(unpin(@), is_dirty)]
                s2 == IF s1.pages[frame_id].pin_count = 0
                      THEN [s1 EXCEPT !.lru = lru_add(@, frame_id)]
                      ELSE s1
            IN [s |-> write_page(s2, frame_id), result |-> TRUE]
       ELSE [s |-> s, result |-> FALSE]

unpin_page(s, page_id, is_dirty) ==
    LET found == find_page(s, page_id)
    IN IF IsSome(found) /\ s.pages[Unwrap(found)].pin_count # 0
       THEN LET frame_id == Unwrap(found)
                s1 == [s EXCEPT !.pages[frame_id] = set_dirty(unpin(@), is_dirty)]
                s2 == IF s1.pages[frame_id].pin_count = 0
                      THEN [s1 EXCEPT !.lru = lru_add(@, frame_id)]
                      ELSE s1
            IN [s |-> write_page(s2, frame_id), result |-> TRUE]
       ELSE [s |-> s, result |-> FALSE]

\* delete_page that forgets to return the frame to the free list.
delete_page_NoFreePush(s, page_id) ==
    LET found == find_page(s, page_id)
    IN IF IsSome(found) /\ s.pages[Unwrap(found)].pin_count = 0
       THEN LET frame_id == Unwrap(found)
            IN [s |-> [s EXCEPT !.pages[frame_id] = reset(@),
                                !.page_table = MapRemove(@, page_id)],
                result |-> TRUE]
       ELSE [s |-> s, result |-> FALSE]

\* delete_page without the filter on the pin count.
delete_page_NoPinFilter(s, page_id) ==
    LET found == find_page(s, page_id)
    IN IF IsSome(found)
       THEN LET frame_id == Unwrap(found)
            IN [s |-> [s EXCEPT !.pages[frame_id] = reset(@),
                                !.page_table = MapRemove(@, page_id),
                                !.free_list = Append(@, frame_id)],
                result |-> TRUE]
       ELSE [s |-> s, result |-> FALSE]

delete_page(s, page_id) ==
    LET found == find_page(s, page_id)
    IN IF IsSome(found) /\ s.pages[Unwrap(found)].pin_count = 0
       THEN LET frame_id == Unwrap(found)
            IN [s |-> [s EXCEPT !.pages[frame_id] = reset(@),
                                !.page_table = MapRemove(@, page_id),
                                !.free_list = Append(@, frame_id)],
                result |-> TRUE]
       ELSE [s |-> s, result |-> FALSE]

\* A caller's access_page_data callback overwriting the buffer of a frame.
access_page_data(s, frame_id, buf) == [s EXCEPT !.pages[frame_id].data = buf]

\* ------------------------------------------------------------------ the state machine
\* The ids new_page has handed out so far.
RECURSIVE IncIter(_)
IncIter(k) == IF k = 0 THEN 0 ELSE inc_fn(IncIter(k - 1))
Created == {IncIter(k) : k \in 0 .. (new_count - 1)}

\* The model's bounds on the unbounded quantities of a state: the pin
\* counts, the length of the file and the id counter.
WithinBounds(s) ==
    /\ \A f \in DOMAIN s.pages : s.pages[f].pin_count <= MaxPin
    /\ Len(s.disk_file) <= MaxFilePages
    /\ s.next_page_id <= MaxPageId + 1

\* A frame that is bound in the page table and has pin count zero.
UnpinnedResident(s, f) ==
    /\ s.pages[f].pin_count = 0
    /\ \E p \in DOMAIN s.page_table : s.page_table[p] = f

RECURSIVE AppendAll(_, _)
AppendAll(seq, S) ==
    IF S = {}
    THEN seq
    ELSE LET f == CHOOSE x \in S : \A y \in S : x <= y
         IN AppendAll(Append(seq, f), S \ {f})

\* The history of unpinned resident frames after a call that takes the pool
\* from old to new: a frame leaves it when it is pinned, evicted or deleted,
\* and enters it at the end when its pin count reaches zero.
NextUnpinOrder(order, old, new) ==
    LET kept == SelectSeq(order, LAMBDA f : UnpinnedResident(new, f))
        before == {order[k] : k \in 1 .. Len(order)}
    IN AppendAll(kept, {f \in DOMAIN new.pages : UnpinnedResident(new, f) /\ f \notin before})

SetPool(s) ==
    /\ WithinBounds(s)
    /\ pages' = s.pages
    /\ free_list' = s.free_list
    /\ page_table' = s.page_table
    /\ lru' = s.lru
    /\ next_page_id' = s.next_page_id
    /\ disk_file' = s.disk_file
    /\ unpin_order' = NextUnpinOrder(unpin_order, Pool, s)
    /\ UNCHANGED << hash_vars, tree_vars, disk_vars, lru_order, threads, lock_vars >>

\* BufferPoolInstance::new over a fresh file: free_list is 0..size.
Init ==
    /\ pages = [f \in 0 .. (PoolSize - 1) |-> PageNew]
    /\ free_list = [k \in 1 .. PoolSize |-> k - 1]
    /\ page_table = << >>
    /\ lru = LRUNew
    /\ next_page_id = 0
    /\ disk_file = << >>
    /\ append_ignores_offset \in BOOLEAN
    /\ committed = [p \in PageIds |-> None]
    /\ new_count = 0
    /\ table = None
    /\ puts = << >>
    /\ tree = None
    /\ input = << >>
    /\ written = << >>
    /\ last_read = None
    /\ lru_order = << >>
    /\ unpin_order = << >>
    /\ threads = << >>
    /\ locks = << >>
    /\ callers = << >>

NewPage ==
    LET r == new_page(Pool)
    IN /\ SetPool(r.s)
       /\ new_count' = IF IsSome(r.result) THEN new_count + 1 ELSE new_count
       /\ UNCHANGED << append_ignores_offset, committed >>

FetchPage ==
    \E page_id \in PageIds :
        /\ SetPool(fetch_page(Pool, page_id).s)
        /\ UNCHANGED << append_ignores_offset, committed, new_count >>

\* track: whether the history variable committed follows the call.
UnpinPage(track) ==
    \E page_id \in PageIds, is_dirty \in BOOLEAN :
        LET r == unpin_page(Pool, page_id, is_dirty)
        IN /\ SetPool(r.s)
           /\ committed' =
                 IF track /\ r.result /\ is_dirty /\ page_id \in Created
                 THEN [committed EXCEPT
                          ![page_id] = Some(pages[page_table[page_id]].data)]
                 ELSE committed
           /\ UNCHANGED << append_ignores_offset, new_count >>

FlushPage ==
    \E page_id \in PageIds :
        /\ SetPool(flush_page(Pool, page_id).s)
        /\ UNCHANGED << append_ignores_offset, committed, new_count >>

\* Deleting a page ends the history of its committed contents.
DeletePage(track) ==
    \E page_id \in PageIds :
        LET r == delete_page(Pool, page_id)
        IN /\ SetPool(r.s)
           /\ committed' =
                 IF track /\ r.result
                 THEN [committed EXCEPT ![page_id] = None]
                 ELSE committed
           /\ UNCHANGED << append_ignores_offset, new_count >>

\* A caller that holds a pin on a page writes bytes through its handle.
WriteData(track) ==
    \E frame_id \in FrameIds, buf \in PageDatas :
        /\ pages[frame_id].pin_count > 0
        /\ IsSome(pages[frame_id].page_id)
        /\ pages[frame_id].data # buf
        /\ SetPool(access_page_data(Pool, frame_id, buf))
        /\ committed' =
              IF track
              THEN [committed EXCEPT ![Unwrap(pages[frame_id].page_id)] = None]
              ELSE committed
        /\ UNCHANGED << append_ignores_offset, new_count >>

Next ==
    \/ NewPage
    \/ FetchPage
    \/ UnpinPage(FALSE)
    \/ FlushPage
    \/ DeletePage(FALSE)
    \/ WriteData(FALSE)

Spec == Init /\ [][Next]_vars

\* The same pool, with the history of committed page contents kept.
NextRoundTrip ==
    \/ NewPage
    \/ FetchPage
    \/ UnpinPage(TRUE)
    \/ FlushPage
    \/ DeletePage(TRUE)
    \/ WriteData(TRUE)

SpecRoundTrip == Init /\ [][NextRoundTrip]_vars

\* ------------------------------------------------------------------ claims
Resident(page_id) == page_id \in DOMAIN page_table
FrameOf(page_id) == page_table[page_id]
InFreeList(frame_id) == \E k \in 1 .. Len(free_list) : free_list[k] = frame_id
AllPinned == \A f \in FrameIds : pages[f].pin_count > 0

\* C1: once new_page has returned p and the caller's bytes B were committed
\* by a successful unpin_page(p, true), every fetch_page(p) that returns a
\* page returns data B.
C1_RoundTrip ==
    \A p \in PageIds :
        IsSome(committed[p]) =>
            LET r == fetch_page(Pool, p)
            IN IsSome(r.result) =>
                  r.s.pages[Unwrap(r.result)].data = Unwrap(committed[p])

\* C2: find_fresh_page never selects a frame whose pin count is greater
\* than zero, so a pinned resident page is never evicted.
C2_PinnedNeverEvicted ==
    LET r == find_fresh_page(Pool)
    IN IsSome(r.result) => pages[Unwrap(r.result)].pin_count = 0

C4_LruIffCachedUnpinned ==
    \A f \in FrameIds :
        InLru(lru, f) <=>
            /\ \E p \in DOMAIN page_table : FrameOf(p) = f
            /\ pages[f].pin_count = 0

\* C5: a frame is in the free list iff its page id is absent.
C5_FreeIffNoPageId ==
    \A f \in FrameIds : InFreeList(f) <=> pages[f].page_id = None

C5_Witness ==
    /\ next_page_id >= 2
    /\ \E f \in FrameIds : InFreeList(f) /\ pages[f].page_id = None
    /\ InLru(lru, free_list[Len(free_list)])

\* C6: new_page, and fetch_page of a page that is not resident, return None
\* iff the free list is empty and every frame is pinned.
C6_NoneIffExhausted ==
    /\ new_page(Pool).result = None <=> (free_list = << >> /\ AllPinned)
    /\ \A p \in PageIds :
          ~Resident(p) =>
              (fetch_page(Pool, p).result = None <=> (free_list = << >> /\ AllPinned))

\* C7: the k-th successful new_page returns inc_fn applied k-1 times to the
\* initial id; a new_page that returns None consumes no id, no other call
\* moves the counter, and a returned id was never returned before.
C7_PageIdAllocation ==
    /\ next_page_id = IncIter(new_count)
    /\ LET r == new_page(Pool)
       IN /\ IsSome(r.result) =>
                /\ r.result = Some(IncIter(new_count))
                /\ r.s.next_page_id = IncIter(new_count + 1)
                /\ Unwrap(r.result) \notin Created
          /\ r.result = None => r.s.next_page_id = next_page_id
    /\ \A p \in PageIds :
          /\ fetch_page(Pool, p).s.next_page_id = next_page_id
          /\ delete_page(Pool, p).s.next_page_id = next_page_id
          /\ flush_page(Pool, p).s.next_page_id = next_page_id
          /\ \A d \in BOOLEAN : unpin_page(Pool, p, d).s.next_page_id = next_page_id

C7_Witness ==
    /\ new_count = 2
    /\ new_page(Pool).result = None
    /\ free_list = << >>

\* C8: unpin_page returns false for a page that is not resident or whose pin
\* count is zero and then changes nothing; no pin count goes below zero.
C8_UnpinRejects ==
    /\ \A p \in PageIds, d \in BOOLEAN :
          (~Resident(p) \/ pages[FrameOf(p)].pin_count = 0) =>
              unpin_page(Pool, p, d) = [s |-> Pool, result |-> FALSE]
    /\ \A f \in FrameIds : pages[f].pin_count >= 0

C8_Witness ==
    \E p \in PageIds :
        /\ Resident(p)
        /\ pages[FrameOf(p)].pin_count = 0
        /\ pages[FrameOf(p)].is_dirty
        /\ InLru(lru, FrameOf(p))

\* C9: a successful unpin_page never turns a dirty page clean, whatever
\* is_dirty it is given.
C9_DirtySticks ==
    \A p \in PageIds, d \in BOOLEAN :
        (Resident(p) /\ pages[FrameOf(p)].is_dirty) =>
            LET r == unpin_page(Pool, p, d)
            IN r.result => r.s.pages[FrameOf(p)].is_dirty

\* C10: delete_page returns true exactly for a resident page with pin count
\* zero; then the page leaves the page table and its frame is reset and
\* pushed on the free list; otherwise nothing changes.
C10_DeletePage ==
    \A p \in PageIds :
        LET r == delete_page(Pool, p)
        IN /\ r.result <=> (Resident(p) /\ pages[FrameOf(p)].pin_count = 0)
           /\ r.result =>
                 /\ p \notin DOMAIN r.s.page_table
                 /\ r.s.pages[FrameOf(p)] =
                       [data |-> ZeroData, page_id |-> None, is_dirty |-> FALSE,
                        pin_count |-> pages[FrameOf(p)].pin_count]
                 /\ r.s.free_list = Append(free_list, FrameOf(p))
                 /\ \A q \in DOMAIN page_table : q # p =>
                       (q \in DOMAIN r.s.page_table /\ r.s.page_table[q] = page_table[q])
           /\ ~r.result => r.s = Pool

C10_Witness ==
    /\ \E p \in PageIds :
          /\ Resident(p)
          /\ pages[FrameOf(p)].pin_count = 0
          /\ pages[FrameOf(p)].is_dirty
          /\ pages[FrameOf(p)].data # ZeroData
    /\ \E p \in PageIds : ~Resident(p) /\ p < next_page_id

\* C11: every page returned by new_page has all-zero data, carries the newly
\* allocated page id, has pin count exactly 1, and its frame is not in the
\* LRU list.
C11_NewPageFresh ==
    LET r == new_page(Pool)
    IN IsSome(r.result) =>
          LET page_id == Unwrap(r.result)
              frame_id == r.s.page_table[page_id]
          IN /\ page_id = next_page_id
             /\ r.s.pages[frame_id].data = ZeroData
             /\ r.s.pages[frame_id].page_id = Some(page_id)
             /\ r.s.pages[frame_id].pin_count = 1
             /\ ~InLru(r.s.lru, frame_id)

\* ------------------------------------------------------------------ hash_table.rs
\* The width of the u32 shifts: checked_shl(1, n) is None from n = 32 on.
U32Bits == 32

Keys == 0 .. MaxKey
Values == 0 .. MaxValue

BucketNew == [depth |-> 1, tuples |-> << >>]

\* The values of the tuples of the bucket that carry the key, in Vec order.
bucket_get(bucket, key) ==
    LET found == SelectSeq(bucket.tuples, LAMBDA tuple : tuple.key = key)
    IN [k \in 1 .. Len(found) |-> found[k].value]

is_full(bucket, bucket_size_limit) == Len(bucket.tuples) >= bucket_size_limit

\* bucket_idx & ((1 << depth) - 1); a shift of 32 or more gives the mask of
\* all ones.
mask(bucket_idx, depth) ==
    IF depth >= U32Bits THEN bucket_idx ELSE bucket_idx % (2 ^ depth)

\* bucket_idx ^ (1 << (depth - 1)); a shift of 32 or more leaves bucket_idx.
split_image_idx(bucket_idx, depth) ==
    IF depth - 1 >= U32Bits
    THEN bucket_idx
    ELSE LET a == 2 ^ (depth - 1)
         IN IF (bucket_idx \div a) % 2 = 1 THEN bucket_idx - a ELSE bucket_idx + a

\* HashTable::new: two directory slots, each with a bucket of its own.
\* directories[i + 1] is the Rc pointer of slot i, an index into heap, the
\* buckets allocated so far.
HashTableNew(bucket_size_limit) ==
    [depth |-> 1, directories |-> << 1, 2 >>, bucket_size_limit |-> bucket_size_limit,
     heap |-> << BucketNew, BucketNew >>]

idx(t, key) == mask(key, t.depth)

\* The bucket that directory slot i points to.
BucketAt(t, i) == t.heap[t.directories[i + 1]]

table_get(t, key) == bucket_get(BucketAt(t, idx(t, key)), key)

put_simple(t, key, value) ==
    [t EXCEPT !.heap[t.directories[idx(t, key) + 1]].tuples =
                 Append(@, [key |-> key, value |-> value])]

expand_directories(t) ==
    LET new_size == 2 ^ (t.depth + 1)
    IN [t EXCEPT !.directories =
                    [k \in 1 .. new_size |-> t.directories[mask(k - 1, t.depth) + 1]],
                 !.depth = @ + 1]

split_bucket(t, bucket_idx) ==
    LET ref == t.directories[bucket_idx + 1]
        depth == t.heap[ref].depth + 1
        keep == SelectSeq(t.heap[ref].tuples,
                          LAMBDA tuple : mask(tuple.key, depth) = bucket_idx)
        remove == SelectSeq(t.heap[ref].tuples,
                            LAMBDA tuple : mask(tuple.key, depth) # bucket_idx)
        new_idx == split_image_idx(bucket_idx, depth)
        new_idx_bucket == [depth |-> depth, tuples |-> remove]
    IN [t EXCEPT !.heap = Append([@ EXCEPT ![ref] = [depth |-> depth, tuples |-> keep]],
                                 new_idx_bucket),
                 !.directories[new_idx + 1] = Len(t.heap) + 1]

\* HashTable::put: idx is computed once, before the directory is expanded.
table_put(t, key, value) ==
    LET i == idx(t, key)
        full == is_full(BucketAt(t, i), t.bucket_size_limit)
        needs_expansion == BucketAt(t, i).depth = t.depth
        t1 == IF full
              THEN split_bucket(IF needs_expansion THEN expand_directories(t) ELSE t, i)
              ELSE t
    IN put_simple(t1, key, value)

\* ------------------------------------------------------------------ the hash table's state machine
InitHash ==
    /\ table = HashTableNew(BucketSizeLimit)
    /\ puts = << >>
    /\ pages = << >>
    /\ free_list = << >>
    /\ page_table = << >>
    /\ lru = LRUNew
    /\ next_page_id = 0
    /\ disk_file = << >>
    /\ append_ignores_offset = FALSE
    /\ committed = << >>
    /\ new_count = 0
    /\ tree = None
    /\ input = << >>
    /\ written = << >>
    /\ last_read = None
    /\ lru_order = << >>
    /\ unpin_order = << >>
    /\ threads = << >>
    /\ locks = << >>
    /\ callers = << >>

Put ==
    \E key \in Keys, value \in Values :
        /\ Len(puts) < MaxPuts
        /\ table' = table_put(table, key, value)
        /\ puts' = Append(puts, [key |-> key, value |-> value])
        /\ UNCHANGED << pool_vars, tree_vars, disk_vars, lru_order, unpin_order,
                        threads, lock_vars >>

NextHash == Put

SpecHash == InitHash /\ [][NextHash]_vars

\* The values put under the key so far, in call order.
Inserted(key) ==
    LET found == SelectSeq(puts, LAMBDA tuple : tuple.key = key)
    IN [k \in 1 .. Len(found) |-> found[k].value]

Slots == 0 .. (Len(table.directories) - 1)

\* The slots of the directory that point to the same bucket as slot i.
SlotsOf(i) == {j \in Slots : table.directories[j + 1] = table.directories[i + 1]}

\* C12: get(k) returns exactly the values put under k, in insertion order,
\* after any sequence of puts, with or without splits and doublings.
C12_GetReturnsInserted ==
    \A key \in Keys : table_get(table, key) = Inserted(key)

\* C13: the directory has exactly 2^D slots, and the bucket of every slot i
\* has a local depth d <= D and is pointed to by exactly the 2^(D-d) slots
\* whose low d bits equal the low d bits of i.
C13_DirectoryInvariant ==
    /\ Len(table.directories) = 2 ^ table.depth
    /\ \A i \in Slots :
          LET d == BucketAt(table, i).depth
          IN /\ d <= table.depth
             /\ Cardinality(SlotsOf(i)) = 2 ^ (table.depth - d)
             /\ SlotsOf(i) = {j \in Slots : mask(j, d) = mask(i, d)}

\* C14: every key stored in the bucket of a directory slot i agrees with i
\* on the low d bits, d being the local depth of the bucket.
C14_KeyPlacement ==
    \A i \in Slots :
        LET bucket == BucketAt(table, i)
        IN \A k \in 1 .. Len(bucket.tuples) :
              mask(bucket.tuples[k].key, bucket.depth) = mask(i, bucket.depth)

\* ------------------------------------------------------------------ aa_tree/mod.rs
NodeValues == 0 .. MaxNodeValue

\* Option<Box<Node>> is None or Some(node), the node held by value.
NodeNew(value, level) == [value |-> value, level |-> level, left |-> None, right |-> None]

new_leaf(value) == NodeNew(value, 1)

\* skew that drops the right subtree of the left child it lifts.
skew_DropsSubtree(node) ==
    IF node.left = None
    THEN node
    ELSE LET left == Unwrap(node.left)
         IN IF left.level = node.level
            THEN [left EXCEPT !.right = Some([node EXCEPT !.left = None])]
            ELSE node

skew(node) ==
    IF node.left = None
    THEN node
    ELSE LET left == Unwrap(node.left)
         IN IF left.level = node.level
            THEN [left EXCEPT !.right = Some([node EXCEPT !.left = left.right])]
            ELSE node

\* split that rotates without raising the level of the lifted node.
split_NoLevelUp(node) ==
    IF node.right = None
    THEN node
    ELSE LET right == Unwrap(node.right)
         IN IF right.right = None
            THEN node
            ELSE LET right_right == Unwrap(right.right)
                 IN IF node.level = right.level /\ right.level = right_right.level
                    THEN [right EXCEPT !.left = Some([node EXCEPT !.right = right.left])]
                    ELSE node

\* split that never rotates.
split_Never(node) == node

split(node) ==
    IF node.right = None
    THEN node
    ELSE LET right == Unwrap(node.right)
         IN IF right.right = None
            THEN node
            ELSE LET right_right == Unwrap(right.right)
                 IN IF node.level = right.level /\ right.level = right_right.level
                    THEN [right EXCEPT !.left = Some([node EXCEPT !.right = right.left]),
                                       !.level = @ + 1]
                    ELSE node

\* inner that takes a value equal to the node's for a greater one.
RECURSIVE inner_EqualGoesRight(_, _)
inner_EqualGoesRight(current, value) ==
    LET inserted_node ==
            IF value < current.value
            THEN [current EXCEPT !.left =
                     Some(IF current.left = None
                          THEN NodeNew(value, current.level)
                          ELSE inner_EqualGoesRight(Unwrap(current.left), value))]
            ELSE [current EXCEPT !.right =
                     Some(IF current.right = None
                          THEN NodeNew(value, current.level)
                          ELSE inner_EqualGoesRight(Unwrap(current.right), value))]
    IN split(skew(inserted_node))

\* A value that finds no child on its side becomes a new node that takes
\* the level of current.
RECURSIVE inner(_, _)
inner(current, value) ==
    LET inserted_node ==
            IF current.value = value
            THEN current
            ELSE IF value < current.value
            THEN [current EXCEPT !.left =
                     Some(IF current.left = None
                          THEN NodeNew(value, current.level)
                          ELSE inner(Unwrap(current.left), value))]
            ELSE [current EXCEPT !.right =
                     Some(IF current.right = None
                          THEN NodeNew(value, current.level)
                          ELSE inner(Unwrap(current.right), value))]
    IN split(skew(inserted_node))

put(node, value) == inner(node, value)

\* The nodes in the order traverse visits them: left subtree, node, right
\* subtree.
RECURSIVE traverse(_)
traverse(node) ==
    (IF node.left = None THEN << >> ELSE traverse(Unwrap(node.left)))
    \o << node >> \o
    (IF node.right = None THEN << >> ELSE traverse(Unwrap(node.right)))

collect_to_vec(node) ==
    LET visited == traverse(node)
    IN [values |-> [k \in 1 .. Len(visited) |-> visited[k].value],
        levels |-> [k \in 1 .. Len(visited) |-> visited[k].level]]

max(a, b) == IF a >= b THEN a ELSE b

RECURSIVE depth(_)
depth(node) ==
    IF node.left # None /\ node.right # None
    THEN max(depth(Unwrap(node.left)), depth(Unwrap(node.right))) + 1
    ELSE IF node.left # None THEN depth(Unwrap(node.left)) + 1
    ELSE IF node.right # None THEN depth(Unwrap(node.right)) + 1
    ELSE 1

\* ------------------------------------------------------------------ the AA tree's state machine
InitTree ==
    /\ \E first \in NodeValues :
          /\ tree = new_leaf(first)
          /\ input = << first >>
    /\ table = None
    /\ puts = << >>
    /\ pages = << >>
    /\ free_list = << >>
    /\ page_table = << >>
    /\ lru = LRUNew
    /\ next_page_id = 0
    /\ disk_file = << >>
    /\ append_ignores_offset = FALSE
    /\ committed = << >>
    /\ new_count = 0
    /\ written = << >>
    /\ last_read = None
    /\ lru_order = << >>
    /\ unpin_order = << >>
    /\ threads = << >>
    /\ locks = << >>
    /\ callers = << >>

\* The caller replaces the tree it holds by the result of put.
TreePut ==
    \E value \in NodeValues :
        /\ Len(input) < MaxInput
        /\ tree' = put(tree, value)
        /\ input' = Append(input, value)
        /\ UNCHANGED << pool_vars, hash_vars, disk_vars, lru_order, unpin_order,
                        threads, lock_vars >>

NextTree == TreePut

SpecTree == InitTree /\ [][NextTree]_vars

\* The distinct values given so far, and their ascending enumeration: what
\* sort and dedup leave of the input.
InputSet == {input[k] : k \in 1 .. Len(input)}

RECURSIVE Ascending(_)
Ascending(S) ==
    IF S = {}
    THEN << >>
    ELSE LET least == CHOOSE x \in S : \A y \in S : x <= y
         IN << least >> \o Ascending(S \ {least})

\* usize::ilog2: the floor of the binary logarithm.
RECURSIVE ilog2(_)
ilog2(n) == IF n < 2 THEN 0 ELSE 1 + ilog2(n \div 2)

\* C15: the in-order traversal of the tree built by new_leaf(first) and a
\* put of each later value is the sorted, duplicate-free input.
C15_InOrderIsSortedDedup ==
    collect_to_vec(tree).values = Ascending(InputSet)

C15_Witness ==
    /\ Len(input) = MaxInput
    /\ Cardinality(InputSet) >= 4
    /\ Cardinality(InputSet) < Len(input)
    /\ tree.value # input[1]

\* C16: after every put, every node without children has level 1, a left
\* child's level is strictly below its parent's, a right child's level is at
\* most its parent's, and a right child's right child has a level strictly
\* below the node's.
C16_LevelInvariants ==
    LET visited == traverse(tree)
    IN \A k \in 1 .. Len(visited) :
          LET node == visited[k]
          IN /\ (node.left = None /\ node.right = None) => node.level = 1
             /\ node.left # None => Unwrap(node.left).level < node.level
             /\ node.right # None => Unwrap(node.right).level <= node.level
             /\ (node.right # None /\ Unwrap(node.right).right # None) =>
                   Unwrap(Unwrap(node.right).right).level < node.level

C16_Witness ==
    /\ tree.level >= 2
    /\ tree.right # None
    /\ Unwrap(tree.right).level = tree.level
    /\ Unwrap(tree.right).right # None

\* C17: a tree of n >= 1 distinct values has depth() at most
\* 2 * floor(log2(n)) + 1.
C17_DepthBound ==
    depth(tree) <= 2 * ilog2(Cardinality(InputSet)) + 1

C17_Witness ==
    /\ Cardinality(InputSet) = 6
    /\ depth(tree) = 4

\* ------------------------------------------------------------------ the disk manager's state machine
\* DiskManager::new over a fresh file, under a pool that no call has
\* touched yet.
InitDisk ==
    /\ pages = [f \in 0 .. (PoolSize - 1) |-> PageNew]
    /\ free_list = [k \in 1 .. PoolSize |-> k - 1]
    /\ page_table = << >>
    /\ lru = LRUNew
    /\ next_page_id = 0
    /\ disk_file = << >>
    /\ append_ignores_offset \in BOOLEAN
    /\ committed = [p \in PageIds |-> None]
    /\ new_count = 0
    /\ table = None
    /\ puts = << >>
    /\ tree = None
    /\ input = << >>
    /\ written = [p \in PageIds |-> None]
    /\ last_read = None
    /\ lru_order = << >>
    /\ unpin_order = << >>
    /\ threads = << >>
    /\ locks = << >>
    /\ callers = << >>

\* write and read hold the RwLock of the file for the whole call, so the
\* calls of concurrent threads take effect one at a time, in any order.
DiskWrite ==
    \E page_id \in PageIds, buf \in PageDatas :
        /\ disk_file' = disk_write(disk_file, append_ignores_offset, page_id, buf)
        /\ Len(disk_file') <= MaxDiskFilePages
        /\ written' = [written EXCEPT ![page_id] = Some(buf)]
        /\ UNCHANGED << pages, free_list, page_table, lru, next_page_id,
                        append_ignores_offset, committed, new_count,
                        hash_vars, tree_vars, last_read, lru_order, unpin_order,
                        threads, lock_vars >>

DiskRead ==
    \E page_id \in PageIds, buf \in PageDatas :
        /\ last_read' = Some([page_id |-> page_id, before |-> buf,
                              after |-> disk_read(disk_file, page_id, buf)])
        /\ UNCHANGED << pool_vars, hash_vars, tree_vars, written, lru_order,
                        unpin_order, threads, lock_vars >>

NextDisk ==
    \/ DiskWrite
    \/ DiskRead

SpecDisk == InitDisk /\ [][NextDisk]_vars

\* C19: after write(p, B), with no later write to p, read(p) returns B, for
\* every page id p, whatever was written to other page ids by any thread.
C19_DiskRoundTrip ==
    \A p \in PageIds :
        IsSome(written[p]) =>
            \A buf \in PageDatas : disk_read(disk_file, p, buf) = Unwrap(written[p])

LruIds == 0 .. MaxLruId

\* LRU::new, used on its own.
InitLru ==
    /\ lru = LRUNew
    /\ lru_order = << >>
    /\ pages = << >>
    /\ free_list = << >>
    /\ page_table = << >>
    /\ next_page_id = 0
    /\ disk_file = << >>
    /\ append_ignores_offset = FALSE
    /\ committed = << >>
    /\ new_count = 0
    /\ table = None
    /\ puts = << >>
    /\ tree = None
    /\ input = << >>
    /\ written = << >>
    /\ last_read = None
    /\ unpin_order = << >>
    /\ threads = << >>
    /\ locks = << >>
    /\ callers = << >>

\* What is left of lru beside the list itself.
LruFrame ==
    UNCHANGED << pages, free_list, page_table, next_page_id, disk_file,
                 append_ignores_offset, committed, new_count, hash_vars, tree_vars,
                 disk_vars, unpin_order, threads, lock_vars >>

\* An id enters the history when it becomes present and leaves it when it
\* stops being present.
LruAdd ==
    \E frame_id \in LruIds :
        /\ lru' = lru_add(lru, frame_id)
        /\ lru_order' = IF \E k \in 1 .. Len(lru_order) : lru_order[k] = frame_id
                        THEN lru_order
                        ELSE Append(lru_order, frame_id)
        /\ LruFrame

LruRemove ==
    \E frame_id \in LruIds :
        /\ lru' = lru_remove(lru, frame_id)
        /\ lru_order' = SelectSeq(lru_order, LAMBDA x : x # frame_id)
        /\ LruFrame

LruRemoveLast ==
    LET r == lru_remove_last(lru)
    IN /\ lru' = r.lru
       /\ lru_order' = IF IsSome(r.result)
                       THEN SelectSeq(lru_order, LAMBDA x : x # Unwrap(r.result))
                       ELSE lru_order
       /\ LruFrame

NextLru ==
    \/ LruAdd
    \/ LruRemove
    \/ LruRemoveLast

SpecLru == InitLru /\ [][NextLru]_vars

Present(frame_id) == \E k \in 1 .. Len(lru_order) : lru_order[k] = frame_id

\* C21: remove_last returns the id that has been present the longest, None
\* when no id is present; add of a present id and remove of an absent id
\* leave the list as it is.
C21_LruOrder ==
    /\ lru_remove_last(lru).result =
          (IF lru_order = << >> THEN None ELSE Some(Head(lru_order)))
    /\ \A frame_id \in LruIds :
          /\ Present(frame_id) <=> InLru(lru, frame_id)
          /\ Present(frame_id) => lru_add(lru, frame_id) = lru
          /\ ~Present(frame_id) => lru_remove(lru, frame_id) = lru

C21_Witness ==
    /\ Len(lru_order) >= 3
    /\ Head(lru_order) > lru_order[2]
    /\ lru_order[2] < lru_order[3]
    /\ \E frame_id \in LruIds : ~Present(frame_id)

\* ------------------------------------------------------------------ two threads sharing a pool
\* should_work_concurrently: a pool of 2 frames shared by two threads; the
\* first works on page id 0, the second on page id 1.
ConcurrentPoolSize == 2
Threads == {1, 2}
OwnPage(t) == t - 1

\* The positions of a thread: before each of its eight steps, after the
\* last one, and stopped by the panic of an unwrap on None.
Panicked == 0
Finished == 9

InitConcurrent ==
    /\ pages = [f \in 0 .. (ConcurrentPoolSize - 1) |-> PageNew]
    /\ free_list = [k \in 1 .. ConcurrentPoolSize |-> k - 1]
    /\ page_table = << >>
    /\ lru = LRUNew
    /\ next_page_id = 0
    /\ disk_file = << >>
    /\ append_ignores_offset \in BOOLEAN
    /\ threads = [t \in Threads |->
                    [pc |-> 1, page |-> None, copy |-> ZeroData, seen |-> None]]
    /\ committed = << >>
    /\ new_count = 0
    /\ table = None
    /\ puts = << >>
    /\ tree = None
    /\ input = << >>
    /\ written = << >>
    /\ last_read = None
    /\ lru_order = << >>
    /\ unpin_order = << >>
    /\ locks = << >>
    /\ callers = << >>

\* The pool after a call of thread t, which moves on; the call holds the
\* pool mutex from its first line to its last, so it is one step.
ThreadCommit(t, s, next) ==
    /\ pages' = s.pages
    /\ free_list' = s.free_list
    /\ page_table' = s.page_table
    /\ lru' = s.lru
    /\ next_page_id' = s.next_page_id
    /\ disk_file' = s.disk_file
    /\ threads' = [threads EXCEPT ![t] = next]
    /\ UNCHANGED << append_ignores_offset, committed, new_count, hash_vars, tree_vars,
                    disk_vars, lru_order, unpin_order, lock_vars >>

\* fetch_page(own id).unwrap().unwrap(), first and second time.
ThreadFetch(t) ==
    /\ threads[t].pc \in {1, 7}
    /\ LET r == fetch_page(Pool, OwnPage(t))
       IN ThreadCommit(t, r.s,
             IF IsSome(r.result)
             THEN [threads[t] EXCEPT !.pc = @ + 1, !.page = r.result]
             ELSE [threads[t] EXCEPT !.pc = Panicked])

\* access_page_data: fill the page with random bytes and keep a copy.
ThreadFill(t) ==
    /\ threads[t].pc = 2
    /\ \E buf \in PageDatas :
          ThreadCommit(t, access_page_data(Pool, Unwrap(threads[t].page), buf),
             [threads[t] EXCEPT !.pc = 3, !.copy = buf])

\* page.set_dirty(true), through the handle.
ThreadSetDirty(t) ==
    /\ threads[t].pc = 3
    /\ ThreadCommit(t,
          [Pool EXCEPT !.pages[Unwrap(threads[t].page)] = set_dirty(@, TRUE)],
          [threads[t] EXCEPT !.pc = 4])

ThreadFlush(t) ==
    /\ threads[t].pc = 4
    /\ ThreadCommit(t, flush_page(Pool, OwnPage(t)).s, [threads[t] EXCEPT !.pc = 5])

ThreadUnpin(t) ==
    /\ threads[t].pc = 5
    /\ ThreadCommit(t, unpin_page(Pool, OwnPage(t), TRUE).s,
          [threads[t] EXCEPT !.pc = 6])

ThreadDelete(t) ==
    /\ threads[t].pc = 6
    /\ ThreadCommit(t, delete_page(Pool, OwnPage(t)).s, [threads[t] EXCEPT !.pc = 7])

\* access_page_data: compare the page with the copy.
ThreadCompare(t) ==
    /\ threads[t].pc = 8
    /\ ThreadCommit(t, Pool,
          [threads[t] EXCEPT !.pc = Finished,
                             !.seen = Some(pages[Unwrap(threads[t].page)].data)])

NextConcurrent ==
    \E t \in Threads :
        \/ ThreadFetch(t)
        \/ ThreadFill(t)
        \/ ThreadSetDirty(t)
        \/ ThreadFlush(t)
        \/ ThreadUnpin(t)
        \/ ThreadDelete(t)
        \/ ThreadCompare(t)

SpecConcurrent == InitConcurrent /\ [][NextConcurrent]_vars

\* C22: under every interleaving of the calls of the two threads, the final
\* fetch_page of each thread returns a page, and its data are the bytes the
\* thread wrote.
C22_ConcurrentRoundTrip ==
    \A t \in Threads :
        /\ threads[t].pc # Panicked
        /\ threads[t].pc = Finished => threads[t].seen = Some(threads[t].copy)

\* ------------------------------------------------------------------ calls that return an I/O error
\* The pool states in which a call leaves the pool when the disk manager's
\* write or read returns Err and the ? operator returns it to the caller.
\* write_page reaches the disk only for a dirty page.
find_fresh_page_errors(s) ==
    IF s.free_list = << >>
    THEN LET r == lru_remove_last(s.lru)
         IN IF IsSome(r.result) /\ s.pages[Unwrap(r.result)].is_dirty
            THEN {[s EXCEPT !.lru = r.lru]}
            ELSE {}
    ELSE {}

new_page_errors(s) == find_fresh_page_errors(s)

\* The read of fetch_page fails after the frame was bound to the page id.
fetch_page_read_errors(s, page_id) ==
    IF IsSome(find_page(s, page_id))
    THEN {}
    ELSE LET fresh == find_fresh_page(s)
         IN IF IsSome(fresh.result)
            THEN LET frame_id == Unwrap(fresh.result)
                 IN {[fresh.s EXCEPT
                         !.lru = lru_remove(@, frame_id),
                         !.page_table = MapInsert(@, page_id, frame_id),
                         !.pages[frame_id] = set_page_id(@, page_id)]}
            ELSE {}

fetch_page_errors(s, page_id) ==
    (IF IsSome(find_page(s, page_id)) THEN {} ELSE find_fresh_page_errors(s))
    \cup fetch_page_read_errors(s, page_id)

unpin_page_errors(s, page_id, is_dirty) ==
    LET found == find_page(s, page_id)
    IN IF IsSome(found) /\ s.pages[Unwrap(found)].pin_count # 0 /\ is_dirty
       THEN LET frame_id == Unwrap(found)
                s1 == [s EXCEPT !.pages[frame_id] = set_dirty(unpin(@), is_dirty)]
            IN {IF s1.pages[frame_id].pin_count = 0
                THEN [s1 EXCEPT !.lru = lru_add(@, frame_id)]
                ELSE s1}
       ELSE {}

flush_page_errors(s, page_id) ==
    LET found == find_page(s, page_id)
    IN IF IsSome(found) /\ s.pages[Unwrap(found)].is_dirty THEN {s} ELSE {}

\* The three invariants of the pool, of a pool state s: the page table is
\* consistent, a frame is in the LRU list iff it is bound in the page table
\* with pin count zero, and a frame is in the free list iff it has no page id.
PoolInvariants(s) ==
    /\ \A p \in DOMAIN s.page_table :
          /\ s.page_table[p] \in DOMAIN s.pages
          /\ s.pages[s.page_table[p]].page_id = Some(p)
    /\ \A p, q \in DOMAIN s.page_table : p # q => s.page_table[p] # s.page_table[q]
    /\ \A f \in DOMAIN s.pages :
          /\ InLru(s.lru, f) <=>
                /\ \E p \in DOMAIN s.page_table : s.page_table[p] = f
                /\ s.pages[f].pin_count = 0
          /\ (\E k \in 1 .. Len(s.free_list) : s.free_list[k] = f) <=>
                s.pages[f].page_id = None

\* C23: when a call returns an I/O error from a pool whose invariants hold,
\* the invariants still hold afterwards, and a page whose read failed is not
\* left in the page table to be served as a cache hit.
C23_ErrorsKeepInvariants ==
    PoolInvariants(Pool) =>
        /\ \A e \in new_page_errors(Pool) : PoolInvariants(e)
        /\ \A p \in PageIds :
              /\ \A e \in fetch_page_errors(Pool, p) : PoolInvariants(e)
              /\ \A e \in fetch_page_read_errors(Pool, p) : p \notin DOMAIN e.page_table
              /\ \A e \in flush_page_errors(Pool, p) : PoolInvariants(e)
              /\ \A d \in BOOLEAN :
                    \A e \in unpin_page_errors(Pool, p, d) : PoolInvariants(e)

\* C24: with an empty free list, the frame that new_page or fetch_page evicts
\* is the unpinned resident frame that has been unpinned the longest, a frame
\* pinned again and unpinned again counting from its last unpin; with a
\* non-empty free list nothing is evicted.
C24_EvictionOrder ==
    LET fresh == find_fresh_page(Pool)
        created == new_page(Pool)
    IN /\ free_list = << >> =>
             /\ IsSome(created.result) =>
                   /\ unpin_order # << >>
                   /\ created.s.page_table[Unwrap(created.result)] = Head(unpin_order)
             /\ \A p \in PageIds \ DOMAIN page_table :
                   LET fetched == fetch_page(Pool, p)
                   IN IsSome(fetched.result) =>
                         /\ unpin_order # << >>
                         /\ Unwrap(fetched.result) = Head(unpin_order)
       /\ free_list # << >> =>
             /\ fresh.result = Some(free_list[Len(free_list)])
             /\ fresh.s.page_table = page_table
             /\ fresh.s.lru = lru


\* C25: flush_page(p) returns true iff p is resident, writes the frame to
\* disk iff p is resident and dirty, and after it has returned true the
\* page's dirty flag is false.
C25_FlushClearsDirty ==
    \A p \in PageIds :
        LET flushed == flush_page(Pool, p)
            dirty == Resident(p) /\ pages[FrameOf(p)].is_dirty
        IN /\ flushed.result = Resident(p)
           /\ dirty => flushed.s.disk_file =
                 disk_write(disk_file, append_ignores_offset, p, pages[FrameOf(p)].data)
           /\ ~dirty => flushed.s.disk_file = disk_file
           /\ flushed.result => ~flushed.s.pages[FrameOf(p)].is_dirty


\* C26: when put splits the bucket of slot i, with local depth d after the
\* split, every directory slot that referred to the bucket before the split
\* refers to the kept bucket if its low d bits equal those of i and to the
\* new bucket otherwise, and both buckets have local depth d.
C26_SplitRedirectsSlots ==
    \A key \in Keys, value \in Values :
        LET i == idx(table, key)
            ref == table.directories[i + 1]
            after == table_put(table, key, value)
            new_ref == Len(table.heap) + 1
            d == after.heap[ref].depth
        IN is_full(BucketAt(table, i), table.bucket_size_limit) =>
              /\ d = table.heap[ref].depth + 1
              /\ after.heap[new_ref].depth = d
              /\ \A j \in 0 .. (Len(after.directories) - 1) :
                    IF table.directories[mask(j, table.depth) + 1] = ref
                    THEN after.directories[j + 1] =
                            (IF mask(j, d) = mask(i, d) THEN ref ELSE new_ref)
                    ELSE after.directories[j + 1] =
                            table.directories[mask(j, table.depth) + 1]


\* ------------------------------------------------------------------ duplicates and new nodes of the AA tree
\* The level that inner hands to Node::new when it puts the value into the
\* tree, None when the value is found and no node is created.
RECURSIVE creation_level(_, _)
creation_level(current, value) ==
    IF current.value = value
    THEN None
    ELSE IF value < current.value
    THEN IF current.left = None
         THEN Some(current.level)
         ELSE creation_level(Unwrap(current.left), value)
    ELSE IF current.right = None
         THEN Some(current.level)
         ELSE creation_level(Unwrap(current.right), value)

\* C27: putting a value that the tree holds returns a tree equal to it, node
\* for node and level for level, and the node created for a value that the
\* tree does not hold is created with level 1.
C27_DuplicateAndNewLevel ==
    \A value \in NodeValues :
        IF value \in InputSet
        THEN /\ put(tree, value) = tree
             /\ creation_level(tree, value) = None
        ELSE creation_level(tree, value) = Some(1)

\* A tree with a node above level 1 that was given some value twice and
\* still lacks a value.
C27_Witness ==
    /\ tree.level > 1
    /\ Len(input) > Cardinality(InputSet)
    /\ InputSet # NodeValues
    /\ \A value \in InputSet : put(tree, value) = tree


\* ------------------------------------------------------------------ the locks of the pool
MaxLockThreads == 2
MaxCalls == 1
LockPoolSize == 1

LockThreads == 1 .. MaxLockThreads
LockFrames == 0 .. (LockPoolSize - 1)

\* The pool mutex, the LRU mutex, the RwLock of the disk manager and the
\* RwLock of each frame.
PoolMutex == << "pool", 0 >>
LruMutex == << "lru", 0 >>
DiskLock == << "disk", 0 >>
FrameLock(frame_id) == << "frame", frame_id >>
LockNames == {PoolMutex, LruMutex, DiskLock} \cup {FrameLock(f) : f \in LockFrames}

\* One step of a thread on a lock. "lock", "read" and "write" are Mutex::lock,
\* RwLock::read and RwLock::write with the guard kept, "unlock" is the drop of
\* the guard. "lock_once", "read_once" and "write_once" are a call that takes
\* the lock, takes no other lock under it and drops the guard before it
\* returns: the thread waits for the lock and passes.
Step(do, on) == [do |-> do, on |-> on]

\* A getter of Page takes the frame's read lock for the call.
page_get(f) == << Step("read_once", FrameLock(f)) >>

\* A setter of Page takes the frame's write lock for the call.
page_set(f) == << Step("write_once", FrameLock(f)) >>

\* access_page_data that keeps the frame's write lock after the callback.
access_page_data_locks_KeepsGuard(f, callback) ==
    << Step("write", FrameLock(f)) >> \o callback

\* access_page_data holds the frame's write lock while the callback runs.
access_page_data_locks(f, callback) ==
    << Step("write", FrameLock(f)) >> \o callback \o << Step("unlock", FrameLock(f)) >>

\* add, remove and remove_last hold the LRU mutex for the call.
lru_locks == << Step("lock_once", LruMutex) >>

disk_write_locks == << Step("write_once", DiskLock) >>

disk_read_locks == << Step("read_once", DiskLock) >>

write_page_locks(f, is_dirty) ==
    page_get(f) \o
    (IF is_dirty
     THEN page_get(f) \o access_page_data_locks(f, disk_write_locks)
     ELSE << >>)

\* from: "free" when the free list gives the frame, "clean" or "dirty" when
\* the LRU list gives a victim, "none" when neither gives a frame.
FreshPaths == {"free", "clean", "dirty", "none"}

find_fresh_page_locks(f, from) ==
    IF from = "free"
    THEN page_set(f)
    ELSE IF from = "none"
    THEN lru_locks
    ELSE lru_locks \o write_page_locks(f, from = "dirty") \o page_get(f)
         \o page_set(f) \o page_set(f)

new_page_locks(f, from) ==
    find_fresh_page_locks(f, from) \o (IF from = "none" THEN << >> ELSE page_set(f))

fetch_page_locks(f, found, from) ==
    IF found
    THEN lru_locks \o page_set(f)
    ELSE find_fresh_page_locks(f, from) \o
         (IF from = "none"
          THEN << >>
          ELSE lru_locks \o page_set(f) \o access_page_data_locks(f, disk_read_locks))

unpin_page_locks(f, found, pinned, last, is_dirty) ==
    IF ~found
    THEN << >>
    ELSE IF ~pinned
    THEN page_get(f)
    ELSE page_get(f) \o page_set(f) \o page_set(f) \o page_get(f)
         \o (IF last THEN lru_locks ELSE << >>) \o write_page_locks(f, is_dirty)

flush_page_locks(f, found, is_dirty) ==
    IF found THEN write_page_locks(f, is_dirty) ELSE << >>

delete_page_locks(f, found, unpinned) ==
    IF ~found
    THEN << >>
    ELSE page_get(f) \o (IF unpinned THEN page_set(f) ELSE << >>)

\* A thread outside any call. script holds the steps the thread has yet to
\* take in its call.
Idle(calls) == [stage |-> "idle", script |-> << >>, calls |-> calls]

InCall(t) == callers[t].stage # "idle"

\* The step the thread is at.
Current(t) == Head(callers[t].script)

\* Whether the lock lets the thread take the step now.
CanTake(t) ==
    LET step == Current(t)
        lock == locks[step.on]
    IN CASE step.do = "unlock" -> TRUE
         [] step.do \in {"read", "read_once"} -> lock.writer = 0
         [] OTHER -> lock.writer = 0 /\ lock.readers = {}

Take(t) ==
    LET step == Current(t)
    IN CASE step.do = "unlock" ->
                [locks EXCEPT ![step.on] =
                    [writer |-> IF @.writer = t THEN 0 ELSE @.writer,
                     readers |-> @.readers \ {t}]]
         [] step.do = "read" -> [locks EXCEPT ![step.on].readers = @ \cup {t}]
         [] step.do \in {"lock", "write"} -> [locks EXCEPT ![step.on].writer = t]
         [] OTHER -> locks

Held(t) == {l \in LockNames : locks[l].writer = t \/ t \in locks[l].readers}

lock_idle ==
    /\ table = None
    /\ puts = << >>
    /\ pages = << >>
    /\ free_list = << >>
    /\ page_table = << >>
    /\ lru = LRUNew
    /\ next_page_id = 0
    /\ disk_file = << >>
    /\ append_ignores_offset = FALSE
    /\ committed = << >>
    /\ new_count = 0
    /\ tree = None
    /\ input = << >>
    /\ written = << >>
    /\ last_read = None
    /\ lru_order = << >>
    /\ unpin_order = << >>
    /\ threads = << >>

InitLocks ==
    /\ locks = [l \in LockNames |-> [writer |-> 0, readers |-> {}]]
    /\ callers = [t \in LockThreads |-> Idle(0)]
    /\ lock_idle

lock_frame == UNCHANGED << pool_vars, hash_vars, tree_vars, disk_vars, lru_order,
                           unpin_order, threads >>

\* A thread calls an operation of the pool: self.0.lock() comes first.
CallPool(t) ==
    /\ ~InCall(t)
    /\ callers[t].calls < MaxCalls
    /\ callers' = [callers EXCEPT ![t] =
                      [@ EXCEPT !.stage = "enter",
                                !.script = << Step("lock", PoolMutex) >>]]
    /\ UNCHANGED locks
    /\ lock_frame

\* With the pool mutex taken, the body of the operation runs and the guard
\* of the pool mutex is dropped when it returns.
Enter(t, body) ==
    /\ callers[t].stage = "enter"
    /\ callers[t].script = << >>
    /\ callers' = [callers EXCEPT ![t] =
                      [@ EXCEPT !.stage = "body",
                                !.script = body \o << Step("unlock", PoolMutex) >>]]
    /\ UNCHANGED locks
    /\ lock_frame

LockNewPage(t) ==
    /\ InCall(t)
    /\ \E f \in LockFrames, from \in FreshPaths : Enter(t, new_page_locks(f, from))

LockFetchPage(t) ==
    /\ InCall(t)
    /\ \E f \in LockFrames, found \in BOOLEAN, from \in FreshPaths :
           Enter(t, fetch_page_locks(f, found, from))

LockUnpinPage(t) ==
    /\ InCall(t)
    /\ \E f \in LockFrames, found \in BOOLEAN, pinned \in BOOLEAN, last \in BOOLEAN,
          is_dirty \in BOOLEAN :
           Enter(t, unpin_page_locks(f, found, pinned, last, is_dirty))

LockFlushPage(t) ==
    /\ InCall(t)
    /\ \E f \in LockFrames, found \in BOOLEAN, is_dirty \in BOOLEAN :
           Enter(t, flush_page_locks(f, found, is_dirty))

LockDeletePage(t) ==
    /\ InCall(t)
    /\ \E f \in LockFrames, found \in BOOLEAN, unpinned \in BOOLEAN :
           Enter(t, delete_page_locks(f, found, unpinned))

\* A thread that holds a Page runs a callback on its data; the callback
\* takes no lock.
CallerAccess(t) ==
    \E f \in LockFrames :
        /\ ~InCall(t)
        /\ callers[t].calls < MaxCalls
        /\ callers' = [callers EXCEPT ![t] =
                          [@ EXCEPT !.stage = "body",
                                    !.script = access_page_data_locks(f, << >>)]]
        /\ UNCHANGED locks
        /\ lock_frame

\* The thread takes its next step; the call returns with the last step of
\* its body.
Advance(t) ==
    /\ InCall(t)
    /\ callers[t].script # << >>
    /\ CanTake(t)
    /\ locks' = Take(t)
    /\ callers' = [callers EXCEPT ![t] =
                      IF @.stage = "body" /\ Len(@.script) = 1
                      THEN Idle(@.calls + 1)
                      ELSE [@ EXCEPT !.script = Tail(@)]]
    /\ lock_frame

Run(t) ==
    \/ LockNewPage(t)
    \/ LockFetchPage(t)
    \/ LockUnpinPage(t)
    \/ LockFlushPage(t)
    \/ LockDeletePage(t)
    \/ Advance(t)

NextLocks ==
    \E t \in LockThreads :
        \/ CallPool(t)
        \/ CallerAccess(t)
        \/ LockNewPage(t)
        \/ LockFetchPage(t)
        \/ LockUnpinPage(t)
        \/ LockFlushPage(t)
        \/ LockDeletePage(t)
        \/ Advance(t)

SpecLocks == InitLocks /\ [][NextLocks]_vars

\* A thread that can run is run: it takes a lock that stays free and leaves
\* a lock it holds.
SpecLocksFair == SpecLocks /\ \A t \in LockThreads : WF_vars(Run(t))

\* The place of a lock in the order: pool mutex, then LRU mutex or frame
\* lock, then disk lock.
Rank(l) == CASE l = PoolMutex -> 1 [] l = DiskLock -> 3 [] OTHER -> 2

\* The thread is about to take a lock.
Wants(t) ==
    /\ InCall(t)
    /\ callers[t].script # << >>
    /\ Current(t).do # "unlock"

\* A thread takes a lock only while the locks it holds come before it in the
\* order; it takes the LRU mutex under the pool mutex alone and the disk lock
\* under the write lock of a frame.
LockOrder ==
    \A t \in LockThreads :
        Wants(t) =>
            /\ \A held \in Held(t) : Rank(held) < Rank(Current(t).on)
            /\ Current(t).on = LruMutex => Held(t) = {PoolMutex}
            /\ Current(t).on = DiskLock =>
                  \E f \in LockFrames : locks[FrameLock(f)].writer = t

\* Some thread inside a call can take its next step.
NoDeadlock ==
    (\E t \in LockThreads : InCall(t)) =>
        \E t \in LockThreads : ENABLED Run(t)

\* C28: threads that call only the public operations of the pool, and
\* callbacks of access_page_data that take no lock, take the locks in the
\* order pool mutex, then LRU mutex or frame lock, then disk lock; no
\* interleaving deadlocks and every call returns: from some point on no
\* thread is inside a call, whichever calls the threads made.
C28_DeadlockFreedom ==
    /\ [](LockOrder /\ NoDeadlock)
    /\ <>[](\A t \in LockThreads : ~InCall(t))

\* The pool operation of one thread waits for a frame that the callback of
\* another thread holds.
C28_Witness ==
    \E t, u \in LockThreads :
        /\ t # u
        /\ PoolMutex \in Held(t)
        /\ Wants(t)
        /\ locks[Current(t).on].writer = u


\* ------------------------------------------------------------------ frame states
\* C29: after every operation each frame is in exactly one of the states
\* FREE (in the free list), CACHED (in the LRU list) or PINNED (pin count
\* above zero, in neither list), and no frame occurs twice in the free list.
C29_FrameStateExclusive ==
    /\ \A f \in FrameIds :
          LET free == InFreeList(f)
              cached == InLru(lru, f)
              pinned == pages[f].pin_count > 0 /\ ~free /\ ~cached
          IN /\ free \/ cached \/ pinned
             /\ ~(free /\ cached)
             /\ ~(free /\ pinned)
             /\ ~(cached /\ pinned)
    /\ \A j, k \in 1 .. Len(free_list) : free_list[j] = free_list[k] => j = k

\* ------------------------------------------------------------------ a pool of more than one frame
WidePoolSize == 2

\* BufferPoolInstance::new with room for two pages at once.
InitWide ==
    /\ pages = [f \in 0 .. (WidePoolSize - 1) |-> PageNew]
    /\ free_list = [k \in 1 .. WidePoolSize |-> k - 1]
    /\ page_table = << >>
    /\ lru = LRUNew
    /\ next_page_id = 0
    /\ disk_file = << >>
    /\ append_ignores_offset \in BOOLEAN
    /\ committed = [p \in PageIds |-> None]
    /\ new_count = 0
    /\ table = None
    /\ puts = << >>
    /\ tree = None
    /\ input = << >>
    /\ written = << >>
    /\ last_read = None
    /\ lru_order = << >>
    /\ unpin_order = << >>
    /\ threads = << >>
    /\ locks = << >>
    /\ callers = << >>

SpecWide == InitWide /\ [][Next]_vars

\* C30: every frame that carries a page id is the frame the page table maps
\* that page id to, so no two frames carry the same page id, and new_page
\* never overwrites an entry of the page table.
C30_UniqueResidency ==
    /\ \A f \in FrameIds :
          IsSome(pages[f].page_id) =>
              /\ Unwrap(pages[f].page_id) \in DOMAIN page_table
              /\ page_table[Unwrap(pages[f].page_id)] = f
    /\ LET fresh == find_fresh_page(Pool)
       IN IsSome(fresh.result) => next_page_id \notin DOMAIN fresh.s.page_table


\* ------------------------------------------------------------------ the tuples of the hash table
\* The buckets that some slot of the directory points to, each once.
reachable(t) == {t.directories[k] : k \in 1 .. Len(t.directories)}

\* How many times the tuple occurs in the sequence.
occurrences(tuples, tuple) == Len(SelectSeq(tuples, LAMBDA other : other = tuple))

\* How many times the tuple occurs in the buckets of the set.
RECURSIVE stored_in(_, _, _)
stored_in(t, refs, tuple) ==
    IF refs = {}
    THEN 0
    ELSE LET ref == CHOOSE r \in refs : TRUE
         IN occurrences(t.heap[ref].tuples, tuple) + stored_in(t, refs \ {ref}, tuple)

\* Whether the first sequence is the second with some elements left out.
RECURSIVE in_order_of(_, _)
in_order_of(tuples, all) ==
    IF tuples = << >>
    THEN TRUE
    ELSE IF all = << >>
    THEN FALSE
    ELSE IF Head(tuples) = Head(all)
    THEN in_order_of(Tail(tuples), Tail(all))
    ELSE in_order_of(tuples, Tail(all))

\* C31: the distinct buckets reachable from the directory together hold
\* exactly the tuples put so far, each as many times as it was put and in
\* the order of the puts within a bucket, and a put adds exactly one tuple,
\* whether it splits a bucket, doubles the directory or does neither.
C31_TupleConservation ==
    LET Tuples == [key : Keys, value : Values]
        stored(t, tuple) == stored_in(t, reachable(t), tuple)
    IN /\ \A tuple \in Tuples : stored(table, tuple) = occurrences(puts, tuple)
       /\ \A ref \in reachable(table) : in_order_of(table.heap[ref].tuples, puts)
       /\ \A added \in Tuples :
             LET after == table_put(table, added.key, added.value)
             IN \A tuple \in Tuples :
                   stored(after, tuple) =
                       stored(table, tuple) + (IF tuple = added THEN 1 ELSE 0)

====
